---- MODULE Spec2Model ----
(***************************************************************************)
(* Model of infra/cifuzz/cifuzz.py: run_fuzzers (time-budget division,     *)
(* fail-fast loop over fuzz targets), download_latest_corpus and           *)
(* parse_fuzzer_output (marker-based extraction of the crash summary).     *)
(* Text is modelled as a sequence of one-character strings; indices are    *)
(* Python's (0-based) and are converted where a TLA+ sequence is indexed.  *)
(***************************************************************************)
EXTENDS Integers, Sequences, FiniteSets, TLC

(* ----------------------------- bounds --------------------------------- *)
\* Number of characters before and after the markers of a raw fuzzer output.
MaxPad == 2
\* Number of successive calls of parse_fuzzer_output on one summary file.
MaxCalls == 2
\* Number of successive calls of download_latest_corpus.
MaxFetches == 3
\* Largest number of fuzz targets discovered in the out directory.
MaxTargets == 3
\* Largest total fuzzing time passed to run_fuzzers.
MaxSeconds == 4

(* ------------------------ module-level constants ---------------------- *)
STACKTRACE_TOOL_MARKERS ==
  <<
    <<"A","d","d","r","e","s","s","S","a","n","i","t","i","z","e","r">>,
    <<"A","S","A","N",":">>,
    <<"C","F","I",":"," ","M","o","s","t"," ","l","i","k","e","l","y"," ","a"," ","c","o","n","t","r","o","l"," ","f","l","o","w"," ","i","n","t","e","g","r","i","t","y"," ","v","i","o","l","a","t","i","o","n",";">>,
    <<"E","R","R","O","R",":"," ","l","i","b","F","u","z","z","e","r">>,
    <<"K","A","S","A","N",":">>,
    <<"L","e","a","k","S","a","n","i","t","i","z","e","r">>,
    <<"M","e","m","o","r","y","S","a","n","i","t","i","z","e","r">>,
    <<"T","h","r","e","a","d","S","a","n","i","t","i","z","e","r">>,
    <<"U","n","d","e","f","i","n","e","d","B","e","h","a","v","i","o","r","S","a","n","i","t","i","z","e","r">>,
    <<"U","n","d","e","f","i","n","e","d","S","a","n","i","t","i","z","e","r">>
  >>

STACKTRACE_END_MARKERS ==
  <<
    <<"A","B","O","R","T","I","N","G">>,
    <<"E","N","D"," ","M","E","M","O","R","Y"," ","T","O","O","L"," ","R","E","P","O","R","T">>,
    <<"E","n","d"," ","o","f"," ","p","r","o","c","e","s","s"," ","m","e","m","o","r","y"," ","m","a","p",".">>,
    <<"E","N","D","_","K","A","S","A","N","_","O","U","T","P","U","T">>,
    <<"S","U","M","M","A","R","Y",":">>,
    <<"S","h","a","d","o","w"," ","b","y","t","e"," ","a","n","d"," ","w","o","r","d">>,
    <<"[","e","n","d"," ","o","f"," ","s","t","a","c","k"," ","t","r","a","c","e","]">>,
    <<"\n","E","x","i","t","i","n","g">>,
    <<"m","i","n","i","d","u","m","p"," ","h","a","s"," ","b","e","e","n"," ","w","r","i","t","t","e","n">>
  >>

\* range(90, 100) of download_latest_corpus.
FirstDayDiff == 90
EndDayDiff == 100

(* ------------------------------- state -------------------------------- *)
VARIABLES
  pc,                      \* position in run_fuzzers
  workspace_exists,        \* os.path.exists(workspace)
  fuzz_seconds,            \* argument of run_fuzzers
  fuzzer_paths,            \* utils.get_fuzz_targets(out_dir), discovery order
  project_name,            \* argument of run_fuzzers
  artifacts_dir_exists,    \* out/artifacts
  fuzz_seconds_per_target,
  idx,                     \* 1-based position of the loop in fuzzer_paths
  corpus_dir,              \* corpus of the current target
  downloads,               \* targets download_latest_corpus was called for
  http_requests,           \* [call, target, day_diff, response] per urlopen
  corpus_dirs,             \* targets whose out/corpus/{target} was created
  extracted,               \* targets whose corpus archive was extracted
  out_dir_exists,          \* os.path.exists(out_dir)
  executed,                \* FuzzTarget objects whose fuzz() was called
  outcomes,                \* what each fuzz() returned
  test_case_file,          \* out/artifacts/test_case
  moves,                   \* number of shutil.move calls
  result,                  \* returned pair, <<>> until the return
  bug_summary,             \* out/artifacts/bug_summary.txt
  parse_calls,             \* number of calls of parse_fuzzer_output
  fuzzer_output,           \* argument of the last call
  begin_summary,           \* locals of the last call
  end_summary,
  summary_str,
  wrote,                   \* the last call reached the write
  prior,                   \* the summary file before the first call
  slices,                  \* summary_str of every call, in call order
  pr_ref,                  \* arguments of build_fuzzers
  commit_sha,
  build_pc,                \* position in build_fuzzers
  build_steps,             \* external steps build_fuzzers has run, in order
  build_result             \* returned value, <<>> until the return

run_vars ==
  <<pc, workspace_exists, fuzz_seconds, fuzzer_paths, project_name,
    artifacts_dir_exists, fuzz_seconds_per_target, idx, corpus_dir, downloads,
    http_requests, corpus_dirs, extracted, out_dir_exists, executed,
    outcomes, test_case_file, moves, result>>

parse_vars ==
  <<bug_summary, parse_calls, fuzzer_output, begin_summary, end_summary,
    summary_str, wrote, prior, slices>>

build_vars == <<pr_ref, commit_sha, build_pc, build_steps, build_result>>

vars == <<run_vars, parse_vars, build_vars>>

(* --------------------------- Python helpers --------------------------- *)
\* An optional text or path: None, or a sequence (possibly empty).
None == [none |-> TRUE, val |-> <<>>]
Some(v) == [none |-> FALSE, val |-> v]
\* Truth value of an optional text: None and the empty string are false.
Truthy(o) == ~o.none /\ o.val # <<>>

MinOf(S) == CHOOSE x \in S : \A y \in S : x <= y

\* str.find: lowest 0-based index at which sub occurs in s, -1 if it does not.
Find(s, sub) ==
  LET hits == {i \in 0..(Len(s) - Len(sub)) : SubSeq(s, i + 1, i + Len(sub)) = sub}
  IN IF hits = {} THEN -1 ELSE MinOf(hits)

\* Normalisation of one slice bound against a text of length n.
SliceBound(i, n) ==
  IF i < 0 THEN (IF i + n < 0 THEN 0 ELSE i + n)
           ELSE (IF i > n THEN n ELSE i)

\* s[b:e]
PySlice(s, b, e) ==
  LET lo == SliceBound(b, Len(s))
      hi == SliceBound(e, Len(s))
  IN IF lo >= hi THEN <<>> ELSE SubSeq(s, lo + 1, hi)

(* ------------------------- parse_fuzzer_output ------------------------ *)
\* The first loop: begin_summary is bound by the first marker whose find()
\* result is truthy (non-zero, so -1 counts); it stays unbound otherwise.
RECURSIVE ScanToolMarkers(_, _)
ScanToolMarkers(raw, k) ==
  IF k > Len(STACKTRACE_TOOL_MARKERS)
  THEN [bound |-> FALSE, val |-> 0]
  ELSE LET marker_index == Find(raw, STACKTRACE_TOOL_MARKERS[k])
       IN IF marker_index # 0
          THEN [bound |-> TRUE, val |-> marker_index]
          ELSE ScanToolMarkers(raw, k + 1)

\* The second loop: end_summary starts at -1 and is set by the first marker
\* whose find() result is truthy.
RECURSIVE ScanEndMarkers(_, _)
ScanEndMarkers(raw, k) ==
  IF k > Len(STACKTRACE_END_MARKERS)
  THEN -1
  ELSE LET marker_index == Find(raw, STACKTRACE_END_MARKERS[k])
       IN IF marker_index # 0
          THEN marker_index + Len(STACKTRACE_END_MARKERS[k])
          ELSE ScanEndMarkers(raw, k + 1)

\* The text the call writes: raw[begin:end].
SummaryStr(raw) ==
  LET b == ScanToolMarkers(raw, 1)
  IN IF b.bound
     THEN PySlice(raw, b.val, ScanEndMarkers(raw, 1))
     ELSE <<>>

\* Variant: the file is opened with 'w' and loses what it held.
AppendToFile_Truncate(file, str) == [exists |-> TRUE, text |-> str]

\* open(summary_file_path, 'a') followed by write(str).
AppendToFile(file, str) ==
  [exists |-> TRUE, text |-> file.text \o str]

\* The whole function: what it computes and what it leaves in the file.
\* Reading the unbound begin_summary (line 284) raises, recorded as fault.
parse_fuzzer_output(raw, file) ==
  LET b == ScanToolMarkers(raw, 1)
      e == ScanEndMarkers(raw, 1)
      s == SummaryStr(raw)
  IN [fault   |-> ~b.bound,
      begin   |-> b.val,
      end     |-> e,
      summary |-> s,
      wrote   |-> b.bound /\ s # <<>>,
      file    |-> IF b.bound /\ s # <<>> THEN AppendToFile(file, s) ELSE file]

\* The effect of one call of parse_fuzzer_output(raw, artifacts_dir) on the
\* summary file and on the record of calls.
ParseEffect(raw) ==
  \E r \in {parse_fuzzer_output(raw, bug_summary)} :
     /\ bug_summary' = r.file
     /\ parse_calls' = parse_calls + 1
     /\ fuzzer_output' = raw
     /\ begin_summary' = r.begin
     /\ end_summary' = r.end
     /\ summary_str' = r.summary
     /\ wrote' = r.wrote
     /\ slices' = Append(slices, r.summary)
     /\ UNCHANGED prior

(* ------------------------------- inputs ------------------------------- *)
Filler == <<" ", "#", "0", " ", "m", "a", "i", "n">>

\* Runs of up to MaxPad characters of text that belongs to no marker.
Padding == {[i \in 1..k |-> "x"] : k \in 0..MaxPad}

\* Raw fuzzer outputs: some text, possibly a start marker (the first or a
\* later entry of the list), possibly stack frames, possibly an end marker
\* (the first or a later entry), some text.
RawOutputs ==
  { pre \o start \o frames \o end \o post :
      pre \in Padding,
      start \in {<<>>, STACKTRACE_TOOL_MARKERS[1], STACKTRACE_TOOL_MARKERS[4]},
      frames \in {<<>>, Filler},
      end \in {<<>>, STACKTRACE_END_MARKERS[1], STACKTRACE_END_MARKERS[5]},
      post \in Padding }

NoFile == [exists |-> FALSE, text |-> <<>>]
OldSummary == [exists |-> TRUE, text |-> <<"o", "l", "d", "\n">>]

\* The summary file as a call may find it: absent, or left by earlier runs.
PriorSummaries == {NoFile, OldSummary}

(* ---------------- parse_fuzzer_output called repeatedly ---------------- *)
ParseInit ==
  /\ bug_summary \in PriorSummaries
  /\ prior = bug_summary
  /\ parse_calls = 0
  /\ fuzzer_output = <<>>
  /\ begin_summary = 0
  /\ end_summary = 0
  /\ summary_str = <<>>
  /\ wrote = FALSE
  /\ slices = <<>>

RunIdle ==
  /\ pc = "idle"
  /\ workspace_exists = TRUE
  /\ fuzz_seconds = [none |-> TRUE, val |-> 0]
  /\ fuzzer_paths = <<>>
  /\ project_name = None
  /\ artifacts_dir_exists = TRUE
  /\ fuzz_seconds_per_target = 0
  /\ idx = 0
  /\ corpus_dir = None
  /\ downloads = <<>>
  /\ http_requests = <<>>
  /\ corpus_dirs = {}
  /\ extracted = {}
  /\ out_dir_exists = TRUE
  /\ executed = <<>>
  /\ outcomes = <<>>
  /\ test_case_file = None
  /\ moves = 0
  /\ result = <<>>

\* build_fuzzers is not running.
BuildIdle ==
  /\ pr_ref = None
  /\ commit_sha = None
  /\ build_pc = "idle"
  /\ build_steps = <<>>
  /\ build_result = <<>>

InitExtract == RunIdle /\ ParseInit /\ BuildIdle

\* parse_fuzzer_output(raw, artifacts_dir) called directly.
ParseFuzzerOutput(raw) ==
  /\ parse_calls < MaxCalls
  /\ ParseEffect(raw)
  /\ UNCHANGED run_vars
  /\ UNCHANGED build_vars

NextExtract == \E raw \in RawOutputs : ParseFuzzerOutput(raw)

SpecExtract == InitExtract /\ [][NextExtract]_vars

(* ------------------------ download_latest_corpus ----------------------- *)
\* Names of the fuzz targets, in the order of the directory listing.
TargetNames == <<"a", "b", "c", "d", "e", "f">>

KnownProject == <<"k", "n", "o", "w", "n">>
UnknownProject == <<"u", "n", "k", "n", "o", "w", "n">>

\* Variant: the existence check is missing.
CheckProjectExists_Skipped(project) == TRUE

\* helper.check_project_exists
CheckProjectExists(project) == project = KnownProject

\* What urlopen and the unzip of one corpus link can do: deliver an archive
\* that extracts, raise urllib.error.HTTPError, raise another URLError, or
\* deliver bytes that are no zip archive (zipfile.BadZipFile).
Responses == {"ok", "http_error", "url_error", "bad_zip"}

\* os.path.join(out_dir, 'corpus', target)
CorpusPath(target) == <<"out", "corpus", target>>

\* Variant: the return after a successful download is missing, the loop
\* goes on to the next offset.
AfterResponse_NoReturn(response) ==
  CASE response = "ok"         -> "continue"
    [] response = "http_error" -> "return_none"
    [] OTHER                   -> "raise"

\* Variant: an HTTP error makes the loop try the next offset.
AfterResponse_Retry(response) ==
  CASE response = "ok"         -> "return_dir"
    [] response = "http_error" -> "continue"
    [] OTHER                   -> "raise"

\* What the body of the loop does with the outcome of its request: return
\* the corpus directory (line 259), return None (line 257) or let the
\* exception leave the function.  No outcome makes the loop go on.
AfterResponse(response) ==
  CASE response = "ok"         -> "return_dir"
    [] response = "http_error" -> "return_none"
    [] OTHER                   -> "raise"

\* The loop over range(90, 100) from offset day_diff on: the offsets probed
\* (requests), whether an archive was extracted, the returned value and
\* whether an exception left the function.  Line 260 returns None when the
\* range is exhausted.
RECURSIVE ProbeCorpus(_, _, _)
ProbeCorpus(day_diff, target, response) ==
  IF day_diff >= EndDayDiff
  THEN [ret |-> None, requests |-> <<>>, extracted |-> FALSE, fault |-> FALSE]
  ELSE LET after == AfterResponse(response)
       IN IF after = "continue"
          THEN LET rest == ProbeCorpus(day_diff + 1, target, response)
               IN [rest EXCEPT !.requests = <<day_diff>> \o @]
          ELSE [ret       |-> IF after = "return_dir"
                              THEN Some(CorpusPath(target)) ELSE None,
                requests  |-> <<day_diff>>,
                extracted |-> response = "ok",
                fault     |-> after = "raise"]

\* The function: ret is the returned path or None, made_dir tells whether
\* out/corpus/{target} was created, requests lists the day offsets probed,
\* fault tells whether an exception left the function.  response is what
\* the storage server answers for this target.
download_latest_corpus(project, has_out_dir, target, response) ==
  IF ~CheckProjectExists(project) \/ ~has_out_dir
  THEN [ret |-> None, made_dir |-> FALSE, requests |-> <<>>,
        extracted |-> FALSE, fault |-> FALSE]
  ELSE LET probe == ProbeCorpus(FirstDayDiff, target, response)
       IN [ret       |-> probe.ret,
           made_dir  |-> TRUE,
           requests  |-> probe.requests,
           extracted |-> probe.extracted,
           fault     |-> probe.fault]

\* The effect of one call download_latest_corpus(project, out_dir, target)
\* on the file system and on the record of requests; corpus_dir receives the
\* returned value.
DownloadEffect(project, target, response) ==
  \E d \in {download_latest_corpus(project, out_dir_exists, target, response)} :
     /\ downloads' = Append(downloads, target)
     /\ http_requests' = http_requests \o
           [i \in 1..Len(d.requests) |->
              [call |-> Len(downloads) + 1, target |-> target,
               day_diff |-> d.requests[i], response |-> response]]
     /\ corpus_dirs' = IF d.made_dir THEN corpus_dirs \cup {target}
                                     ELSE corpus_dirs
     /\ extracted' = IF d.extracted THEN extracted \cup {target}
                                    ELSE extracted
     /\ corpus_dir' = IF d.fault THEN corpus_dir ELSE d.ret

(* -------------- download_latest_corpus called repeatedly --------------- *)
InitFetch ==
  /\ pc = "fetch"
  /\ workspace_exists = TRUE
  /\ fuzz_seconds = [none |-> TRUE, val |-> 0]
  /\ fuzzer_paths = <<>>
  /\ project_name \in {Some(KnownProject), Some(UnknownProject)}
  /\ out_dir_exists \in BOOLEAN
  /\ artifacts_dir_exists = FALSE
  /\ fuzz_seconds_per_target = 0
  /\ idx = 0
  /\ corpus_dir = None
  /\ downloads = <<>>
  /\ http_requests = <<>>
  /\ corpus_dirs = {}
  /\ extracted = {}
  /\ executed = <<>>
  /\ outcomes = <<>>
  /\ test_case_file = None
  /\ moves = 0
  /\ result = <<>>
  /\ ParseInit
  /\ bug_summary = NoFile
  /\ BuildIdle

\* download_latest_corpus(project_name, out_dir, target) called directly.  An
\* exception of the call ends the session.
FetchCorpus(target, response) ==
  /\ pc = "fetch"
  /\ Len(downloads) < MaxFetches
  /\ DownloadEffect(project_name.val, target, response)
  /\ pc' = IF download_latest_corpus(project_name.val, out_dir_exists,
                                     target, response).fault
           THEN "fault" ELSE "fetch"
  /\ UNCHANGED <<workspace_exists, fuzz_seconds, fuzzer_paths, project_name,
                 artifacts_dir_exists, out_dir_exists,
                 fuzz_seconds_per_target, idx, executed, outcomes,
                 test_case_file, moves, result>>
  /\ UNCHANGED parse_vars
  /\ UNCHANGED build_vars

NextFetch ==
  \E target \in {TargetNames[i] : i \in 1..MaxTargets}, response \in Responses :
    FetchCorpus(target, response)

SpecFetch == InitFetch /\ [][NextFetch]_vars

(* ----------------------------- run_fuzzers ----------------------------- *)
AsanTrace ==
  <<"x">> \o STACKTRACE_TOOL_MARKERS[1] \o Filler \o STACKTRACE_END_MARKERS[1]
LibFuzzerTrace ==
  STACKTRACE_TOOL_MARKERS[4] \o Filler \o STACKTRACE_END_MARKERS[5]

\* os.path of the crash file target.fuzz() reports.
CrashPath(target) == <<"out", "crash", target>>

\* What target.fuzz() can return: (test_case, stack_trace).
FuzzOutcomes(target) ==
  { [test_case |-> None,                    stack_trace |-> None],
    [test_case |-> Some(CrashPath(target)), stack_trace |-> None],
    [test_case |-> None,                    stack_trace |-> Some(AsanTrace)],
    [test_case |-> Some(CrashPath(target)), stack_trace |-> Some(<<>>)],
    [test_case |-> Some(<<>>),              stack_trace |-> Some(AsanTrace)],
    [test_case |-> Some(CrashPath(target)), stack_trace |-> Some(AsanTrace)],
    [test_case |-> Some(CrashPath(target)), stack_trace |-> Some(LibFuzzerTrace)] }

\* Variant: one of the two values is enough to take the else branch.
DetectedError_Either(o) == Truthy(o.test_case) \/ Truthy(o.stack_trace)

\* The test of line 212 negated: the else branch is taken.
DetectedError(o) == ~(~Truthy(o.test_case) \/ ~Truthy(o.stack_trace))

\* Variant: the division rounds up instead of down.
SecondsPerTarget_RoundUp(seconds, paths) ==
  (seconds + Len(paths) - 1) \div Len(paths)

\* fuzz_seconds // len(fuzzer_paths)
SecondsPerTarget(seconds, paths) == seconds \div Len(paths)

\* Variant: the lower limit is compared against 0 instead of 1.
BadFuzzSeconds_AllowZero(fs) == fs.none \/ fs.val < 0

\* not fuzz_seconds or fuzz_seconds < 1
BadFuzzSeconds(fs) == (fs.none \/ fs.val = 0) \/ fs.val < 1

OldTestCase == Some(<<"out", "crash", "old">>)

RunInit ==
  /\ pc = "start"
  /\ workspace_exists \in BOOLEAN
  /\ fuzz_seconds \in {[none |-> TRUE, val |-> 0]}
        \cup {[none |-> FALSE, val |-> v] : v \in -1..MaxSeconds}
  /\ fuzzer_paths \in {SubSeq(TargetNames, 1, n) : n \in 0..MaxTargets}
  /\ project_name \in {None, Some(KnownProject), Some(UnknownProject)}
  /\ artifacts_dir_exists \in BOOLEAN
  /\ out_dir_exists \in BOOLEAN
  /\ test_case_file \in {None, OldTestCase}
  /\ extracted = {}
  /\ fuzz_seconds_per_target = 0
  /\ idx = 0
  /\ corpus_dir = None
  /\ downloads = <<>>
  /\ http_requests = <<>>
  /\ corpus_dirs = {}
  /\ executed = <<>>
  /\ outcomes = <<>>
  /\ moves = 0
  /\ result = <<>>

\* Files exist only inside directories that exist, and a summary was left by
\* an earlier run that found a crash and also left its test case.
Init ==
  /\ RunInit
  /\ ParseInit
  /\ BuildIdle
  /\ ~workspace_exists => ~out_dir_exists
  /\ ~out_dir_exists => ~artifacts_dir_exists /\ fuzzer_paths = <<>>
  /\ ~test_case_file.none => artifacts_dir_exists
  /\ bug_summary.exists => ~test_case_file.none

Return(ok, bug) ==
  /\ result' = <<ok, bug>>
  /\ pc' = "done"

\* Lines 173-191: input validation and the division of the budget.
Validate ==
  /\ pc = "start"
  /\ IF ~workspace_exists
     THEN /\ Return(FALSE, FALSE)
          /\ UNCHANGED <<artifacts_dir_exists, out_dir_exists,
                         fuzz_seconds_per_target, idx>>
     ELSE /\ artifacts_dir_exists' = TRUE
          /\ out_dir_exists' = TRUE
          /\ IF BadFuzzSeconds(fuzz_seconds) \/ fuzzer_paths = <<>>
             THEN /\ Return(FALSE, FALSE)
                  /\ UNCHANGED <<fuzz_seconds_per_target, idx>>
             ELSE /\ fuzz_seconds_per_target' =
                       SecondsPerTarget(fuzz_seconds.val, fuzzer_paths)
                  /\ idx' = 1
                  /\ pc' = "loop"
                  /\ UNCHANGED result
  /\ UNCHANGED <<workspace_exists, fuzz_seconds, fuzzer_paths, project_name,
                 corpus_dir, downloads, http_requests, corpus_dirs, executed,
                 outcomes, test_case_file, moves, extracted>>
  /\ UNCHANGED parse_vars
  /\ UNCHANGED build_vars

\* Variant: a target whose corpus could not be downloaded is not fuzzed.
DownloadCorpus_SkipTarget(response) ==
  /\ pc = "loop"
  /\ idx <= Len(fuzzer_paths)
  /\ Truthy(project_name)
  /\ DownloadEffect(project_name.val, fuzzer_paths[idx], response)
  /\ \E d \in {download_latest_corpus(project_name.val, out_dir_exists,
                                       fuzzer_paths[idx], response)} :
        /\ pc' = IF d.fault THEN "fault"
                 ELSE IF Truthy(d.ret) THEN "fuzz" ELSE "loop"
        /\ idx' = IF ~d.fault /\ ~Truthy(d.ret) THEN idx + 1 ELSE idx
  /\ UNCHANGED <<workspace_exists, fuzz_seconds, fuzzer_paths, project_name,
                 artifacts_dir_exists, out_dir_exists,
                 fuzz_seconds_per_target, executed, outcomes,
                 test_case_file, moves, result>>
  /\ UNCHANGED parse_vars
  /\ UNCHANGED build_vars

\* Lines 197-203: the corpus of the next target is downloaded when a project
\* name was given.  An exception of the download leaves run_fuzzers.
DownloadCorpus(response) ==
  /\ pc = "loop"
  /\ idx <= Len(fuzzer_paths)
  /\ Truthy(project_name)
  /\ DownloadEffect(project_name.val, fuzzer_paths[idx], response)
  /\ pc' = IF download_latest_corpus(project_name.val, out_dir_exists,
                                     fuzzer_paths[idx], response).fault
           THEN "fault" ELSE "fuzz"
  /\ UNCHANGED <<workspace_exists, fuzz_seconds, fuzzer_paths, project_name,
                 artifacts_dir_exists, out_dir_exists,
                 fuzz_seconds_per_target, idx, executed, outcomes,
                 test_case_file, moves, result>>
  /\ UNCHANGED parse_vars
  /\ UNCHANGED build_vars

\* Lines 204-211: the FuzzTarget is built and fuzz() is called.
Fuzz ==
  /\ \/ pc = "fuzz"
     \/ pc = "loop" /\ idx <= Len(fuzzer_paths) /\ ~Truthy(project_name)
  /\ \E o \in FuzzOutcomes(fuzzer_paths[idx]) : outcomes' = Append(outcomes, o)
  /\ executed' = Append(executed,
        [target     |-> fuzzer_paths[idx],
         duration   |-> fuzz_seconds_per_target,
         corpus_dir |-> IF Truthy(project_name) THEN corpus_dir ELSE None])
  /\ pc' = "check"
  /\ UNCHANGED <<workspace_exists, fuzz_seconds, fuzzer_paths, project_name,
                 artifacts_dir_exists, fuzz_seconds_per_target, idx,
                 corpus_dir, downloads, http_requests, corpus_dirs,
                 test_case_file, moves, result>>
  /\ UNCHANGED parse_vars
  /\ UNCHANGED <<out_dir_exists, extracted>>
  /\ UNCHANGED build_vars

LastOutcome == outcomes[Len(outcomes)]

\* Variant: the loop steps over the target that follows a finished one.
FinishedRunning_Skip ==
  /\ pc = "check"
  /\ ~DetectedError(LastOutcome)
  /\ idx' = idx + 2
  /\ pc' = "loop"
  /\ UNCHANGED <<workspace_exists, fuzz_seconds, fuzzer_paths, project_name,
                 artifacts_dir_exists, fuzz_seconds_per_target, downloads,
                 corpus_dir, http_requests, corpus_dirs, executed, outcomes,
                 test_case_file, moves, result>>
  /\ UNCHANGED parse_vars
  /\ UNCHANGED <<out_dir_exists, extracted>>
  /\ UNCHANGED build_vars

\* Lines 212-213: the target finished, the loop goes on.
FinishedRunning ==
  /\ pc = "check"
  /\ ~DetectedError(LastOutcome)
  /\ idx' = idx + 1
  /\ pc' = "loop"
  /\ UNCHANGED <<workspace_exists, fuzz_seconds, fuzzer_paths, project_name,
                 artifacts_dir_exists, fuzz_seconds_per_target, downloads,
                 corpus_dir,
                 http_requests, corpus_dirs, executed, outcomes,
                 test_case_file, moves, result>>
  /\ UNCHANGED parse_vars
  /\ UNCHANGED <<out_dir_exists, extracted>>
  /\ UNCHANGED build_vars

\* Variant: the test case is moved into the artifacts directory under its
\* own name, artifacts/test_case is not written.
MoveTestCase_OwnName ==
  /\ pc = "check"
  /\ DetectedError(LastOutcome)
  /\ moves' = moves + 1
  /\ pc' = "parse"
  /\ UNCHANGED <<workspace_exists, fuzz_seconds, fuzzer_paths, project_name,
                 artifacts_dir_exists, fuzz_seconds_per_target, idx,
                 corpus_dir, downloads, http_requests, corpus_dirs, executed,
                 outcomes, test_case_file, result>>
  /\ UNCHANGED parse_vars
  /\ UNCHANGED <<out_dir_exists, extracted>>
  /\ UNCHANGED build_vars

\* Line 217: shutil.move(test_case, artifacts/test_case).
MoveTestCase ==
  /\ pc = "check"
  /\ DetectedError(LastOutcome)
  /\ test_case_file' = LastOutcome.test_case
  /\ moves' = moves + 1
  /\ pc' = "parse"
  /\ UNCHANGED <<workspace_exists, fuzz_seconds, fuzzer_paths, project_name,
                 artifacts_dir_exists, fuzz_seconds_per_target, idx,
                 corpus_dir, downloads, http_requests, corpus_dirs, executed,
                 outcomes, result>>
  /\ UNCHANGED parse_vars
  /\ UNCHANGED <<out_dir_exists, extracted>>
  /\ UNCHANGED build_vars

\* Line 218: parse_fuzzer_output(stack_trace, artifacts_dir).
ParseStackTrace ==
  /\ pc = "parse"
  /\ ParseEffect(LastOutcome.stack_trace.val)
  /\ pc' = IF parse_fuzzer_output(LastOutcome.stack_trace.val, bug_summary).fault
           THEN "fault" ELSE "return"
  /\ UNCHANGED <<workspace_exists, fuzz_seconds, fuzzer_paths, project_name,
                 artifacts_dir_exists, fuzz_seconds_per_target, idx,
                 corpus_dir, downloads, http_requests, corpus_dirs, executed,
                 outcomes, test_case_file, moves, result>>
  /\ UNCHANGED <<out_dir_exists, extracted>>
  /\ UNCHANGED build_vars

\* Variant: the return after the crash is missing and the loop goes on.
ReturnBugFound_Continue ==
  /\ pc = "return"
  /\ idx' = idx + 1
  /\ pc' = "loop"
  /\ UNCHANGED <<workspace_exists, fuzz_seconds, fuzzer_paths, project_name,
                 artifacts_dir_exists, fuzz_seconds_per_target, downloads,
                 corpus_dir,
                 http_requests, corpus_dirs, executed, outcomes,
                 test_case_file, moves, result>>
  /\ UNCHANGED parse_vars
  /\ UNCHANGED <<out_dir_exists, extracted>>
  /\ UNCHANGED build_vars

\* Line 219: return True, True.
ReturnBugFound ==
  /\ pc = "return"
  /\ Return(TRUE, TRUE)
  /\ UNCHANGED <<workspace_exists, fuzz_seconds, fuzzer_paths, project_name,
                 artifacts_dir_exists, fuzz_seconds_per_target, idx,
                 corpus_dir, downloads, http_requests, corpus_dirs, executed,
                 outcomes, test_case_file, moves>>
  /\ UNCHANGED parse_vars
  /\ UNCHANGED <<out_dir_exists, extracted>>
  /\ UNCHANGED build_vars

\* Line 220: the loop is exhausted, return True, False.
ReturnNoBug ==
  /\ pc = "loop"
  /\ idx > Len(fuzzer_paths)
  /\ Return(TRUE, FALSE)
  /\ UNCHANGED <<workspace_exists, fuzz_seconds, fuzzer_paths, project_name,
                 artifacts_dir_exists, fuzz_seconds_per_target, idx,
                 corpus_dir, downloads, http_requests, corpus_dirs, executed,
                 outcomes, test_case_file, moves>>
  /\ UNCHANGED parse_vars
  /\ UNCHANGED <<out_dir_exists, extracted>>
  /\ UNCHANGED build_vars

Next ==
  \/ Validate
  \/ \E response \in Responses : DownloadCorpus(response)
  \/ Fuzz
  \/ FinishedRunning
  \/ MoveTestCase
  \/ ParseStackTrace
  \/ ReturnBugFound
  \/ ReturnNoBug

Spec == Init /\ [][Next]_vars

(* ---------------------------- build_fuzzers ---------------------------- *)
PullRequestRef == <<"r", "e", "f", "s", "/", "p", "u", "l", "l", "/", "1">>
CommitSha == <<"a", "b", "c", "1", "2", "3">>

\* What build_specified_commit.detect_main_repo can return for a project:
\* (inferred_url, oss_fuzz_repo_path), either of which may be None.
DetectOutcomes(project) ==
  IF project = KnownProject
  THEN {"found", "no_url", "no_path", "nothing"}
  ELSE {"nothing"}

\* not inferred_url or not oss_fuzz_repo_path
RepoNotDetected(detected) == detected # "found"

\* What checkout_pr / checkout_commit can do: return, or raise one of the two
\* exceptions that lines 122-127 catch.
CheckoutOutcomes == {"ok", "RuntimeError", "ValueError"}

\* Exit codes of helper.docker_run.
DockerExitCodes == {0, 1}

\* Variant: the test of the build command is inverted.
DockerRunFailed_Inverted(rc) == rc = 0

\* if helper.docker_run(command): the build failed
DockerRunFailed(rc) == rc # 0

BuildReturn(ok) ==
  /\ build_result' = <<ok>>
  /\ build_pc' = "done"

\* Lines 93-102: the assertion on the arguments, the workspace check and the
\* creation of workspace/storage and workspace/out.
BuildValidate ==
  /\ build_pc = "start"
  /\ IF ~(Truthy(pr_ref) \/ Truthy(commit_sha))
     THEN /\ build_pc' = "fault"
          /\ UNCHANGED <<build_steps, build_result, out_dir_exists>>
     ELSE IF ~workspace_exists
     THEN /\ build_steps' = Append(build_steps,
               [step |-> "workspace_check", outcome |-> "missing"])
          /\ BuildReturn(FALSE)
          /\ UNCHANGED out_dir_exists
     ELSE /\ build_steps' = Append(build_steps,
               [step |-> "workspace_check", outcome |-> "exists"])
          /\ out_dir_exists' = TRUE
          /\ build_pc' = "detect"
          /\ UNCHANGED build_result
  /\ UNCHANGED <<pr_ref, commit_sha>>
  /\ UNCHANGED <<pc, workspace_exists, fuzz_seconds, fuzzer_paths,
                 project_name, artifacts_dir_exists, fuzz_seconds_per_target,
                 idx, corpus_dir, downloads, http_requests, corpus_dirs,
                 extracted, executed, outcomes, test_case_file, moves, result>>
  /\ UNCHANGED parse_vars

\* Lines 104-111: the repository of the project is detected.
DetectRepo(detected) ==
  /\ build_pc = "detect"
  /\ build_steps' = Append(build_steps,
        [step |-> "detect_main_repo", outcome |-> detected])
  /\ IF RepoNotDetected(detected)
     THEN BuildReturn(FALSE)
     ELSE build_pc' = "checkout" /\ UNCHANGED build_result
  /\ UNCHANGED <<pr_ref, commit_sha>>
  /\ UNCHANGED run_vars
  /\ UNCHANGED parse_vars

\* Lines 113-127: the pull request is checked out when pr_ref is given, the
\* commit otherwise; RuntimeError and ValueError make the build return False.
Checkout(outcome) ==
  /\ build_pc = "checkout"
  /\ build_steps' = Append(build_steps,
        [step    |-> IF Truthy(pr_ref) THEN "checkout_pr"
                                       ELSE "checkout_commit",
         outcome |-> outcome])
  /\ IF outcome \in {"RuntimeError", "ValueError"}
     THEN BuildReturn(FALSE)
     ELSE build_pc' = "docker" /\ UNCHANGED build_result
  /\ UNCHANGED <<pr_ref, commit_sha>>
  /\ UNCHANGED run_vars
  /\ UNCHANGED parse_vars

\* Lines 129-158: the build command runs in the container.
DockerRun(rc) ==
  /\ build_pc = "docker"
  /\ build_steps' = Append(build_steps,
        [step    |-> "docker_run",
         outcome |-> IF rc = 0 THEN "exit_0" ELSE "exit_nonzero"])
  /\ BuildReturn(~DockerRunFailed(rc))
  /\ UNCHANGED <<pr_ref, commit_sha>>
  /\ UNCHANGED run_vars
  /\ UNCHANGED parse_vars

InitBuild ==
  /\ pc = "idle"
  /\ workspace_exists \in BOOLEAN
  /\ out_dir_exists \in BOOLEAN
  /\ ~workspace_exists => ~out_dir_exists
  /\ project_name \in {Some(KnownProject), Some(UnknownProject)}
  /\ pr_ref \in {None, Some(<<>>), Some(PullRequestRef)}
  /\ commit_sha \in {None, Some(<<>>), Some(CommitSha)}
  /\ build_pc = "start"
  /\ build_steps = <<>>
  /\ build_result = <<>>
  /\ fuzz_seconds = [none |-> TRUE, val |-> 0]
  /\ fuzzer_paths = <<>>
  /\ artifacts_dir_exists = FALSE
  /\ fuzz_seconds_per_target = 0
  /\ idx = 0
  /\ corpus_dir = None
  /\ downloads = <<>>
  /\ http_requests = <<>>
  /\ corpus_dirs = {}
  /\ extracted = {}
  /\ executed = <<>>
  /\ outcomes = <<>>
  /\ test_case_file = None
  /\ moves = 0
  /\ result = <<>>
  /\ ParseInit
  /\ bug_summary = NoFile

NextBuild ==
  \/ BuildValidate
  \/ \E detected \in DetectOutcomes(project_name.val) : DetectRepo(detected)
  \/ \E outcome \in CheckoutOutcomes : Checkout(outcome)
  \/ \E rc \in DockerExitCodes : DockerRun(rc)

SpecBuild == InitBuild /\ [][NextBuild]_vars

(* ======================= properties of run_fuzzers ===================== *)
\* A target outcome that is a crash: a failing test case and crash output
\* are both present.
IsCrash(o) == Truthy(o.test_case) /\ Truthy(o.stack_trace)

\* The targets at positions 1..i of the discovery order.
FirstTargets(i) == {fuzzer_paths[k] : k \in 1..i}

\* C1 (fail-fast): once the outcome of the i-th target is a crash, it is the
\* last outcome processed: no target after position i has been executed and
\* no corpus download has been started for one.
C1_FailFast ==
  \A i \in 1..Len(outcomes) :
    IsCrash(outcomes[i]) =>
      /\ Len(outcomes) = i
      /\ Len(executed) = i
      /\ \A j \in 1..Len(executed) : executed[j].target \in FirstTargets(i)
      /\ \A j \in 1..Len(downloads) : downloads[j] \in FirstTargets(i)

C1_Witness ==
  /\ pc = "done"
  /\ Truthy(project_name)
  /\ Len(fuzzer_paths) = 3
  /\ Len(outcomes) = 2
  /\ IsCrash(outcomes[2])
  /\ Len(downloads) = 2

\* C2 (budget division): every executed target was given q seconds where q is
\* the floor of fuzz_seconds / n, i.e. n * q <= fuzz_seconds < n * (q + 1);
\* so the n allotments sum to at most fuzz_seconds and leave at most n - 1.
C2_BudgetDivision ==
  \A i \in 1..Len(executed) :
    LET n == Len(fuzzer_paths)
        q == executed[i].duration
    IN /\ fuzz_seconds.val >= 1
       /\ n >= 1
       /\ q >= 0
       /\ n * q <= fuzz_seconds.val
       /\ fuzz_seconds.val - n * q <= n - 1

C2_Witness ==
  /\ pc = "done"
  /\ Len(fuzzer_paths) = 3
  /\ Len(executed) = 3
  /\ fuzz_seconds.val = 4
  /\ \A i \in 1..3 : executed[i].duration = 1

\* The inputs of a valid run.
ValidRun ==
  /\ workspace_exists
  /\ ~fuzz_seconds.none
  /\ fuzz_seconds.val >= 1
  /\ Len(fuzzer_paths) >= 1

\* C3 (result of a valid run): when a valid run has returned, the result is
\* (TRUE, TRUE) exactly if some executed target reported a crash, it is
\* (TRUE, FALSE) exactly if every discovered target was executed and none
\* reported a crash, and its first component is never FALSE.
C3_ValidRunResult ==
  (pc = "done" /\ ValidRun) =>
    /\ result = <<TRUE, TRUE>> <=>
         \E i \in 1..Len(outcomes) : IsCrash(outcomes[i])
    /\ result = <<TRUE, FALSE>> <=>
         /\ Len(executed) = Len(fuzzer_paths)
         /\ \A i \in 1..Len(executed) : executed[i].target = fuzzer_paths[i]
         /\ \A i \in 1..Len(outcomes) : ~IsCrash(outcomes[i])
    /\ result[1] = TRUE

C3_Witness ==
  /\ pc = "done"
  /\ ValidRun
  /\ result = <<TRUE, FALSE>>
  /\ Len(executed) = 2
  /\ Truthy(outcomes[1].test_case)
  /\ Truthy(outcomes[2].stack_trace)

\* C4 (input validation): a run whose workspace is missing, whose
\* fuzz_seconds is missing or below 1, or that discovers no target, executes
\* no target, downloads no corpus, moves no test case and leaves the summary
\* file as it was, and what it returns is (FALSE, FALSE).
InvalidRun ==
  \/ ~workspace_exists
  \/ fuzz_seconds.none
  \/ fuzz_seconds.val < 1
  \/ fuzzer_paths = <<>>

C4_InvalidRunRejected ==
  InvalidRun =>
    /\ pc \in {"start", "done"}
    /\ pc = "done" => result = <<FALSE, FALSE>>
    /\ executed = <<>>
    /\ downloads = <<>>
    /\ http_requests = <<>>
    /\ moves = 0
    /\ parse_calls = 0
    /\ bug_summary = prior

C4_Witness ==
  /\ pc = "done"
  /\ workspace_exists
  /\ ~fuzz_seconds.none
  /\ fuzz_seconds.val = 0
  /\ Len(fuzzer_paths) = 2
  /\ Truthy(project_name)
  /\ bug_summary.exists
  /\ result = <<FALSE, FALSE>>

\* C5 (at most one crash report per run): in every state of a run the
\* extractor has been called at most once and a test case has been moved to
\* artifacts/test_case at most once.
C5_AtMostOneCrashReport == parse_calls <= 1 /\ moves <= 1

C5_Witness ==
  /\ pc = "done"
  /\ Len(fuzzer_paths) = 3
  /\ Len(executed) = 2
  /\ parse_calls = 1
  /\ moves = 1

(* =================== properties of parse_fuzzer_output ================= *)
\* The 0-based positions at which marker m occurs in text t.
Positions(t, m) ==
  {i \in 0..(Len(t) - Len(m)) : \A j \in 1..Len(m) : t[i + j] = m[j]}

Occurs(t, m) == Positions(t, m) # {}

\* The entries of an ordered marker list that occur in t, as list positions.
Present(t, markers) == {k \in 1..Len(markers) : Occurs(t, markers[k])}

\* The earliest entry of the list that occurs in t.
EarliestPresent(t, markers) == markers[MinOf(Present(t, markers))]

FirstPosition(t, m) == MinOf(Positions(t, m))

BeginsWith(t, m) == Len(t) >= Len(m) /\ SubSeq(t, 1, Len(m)) = m
EndsWith(t, m) ==
  Len(t) >= Len(m) /\ SubSeq(t, Len(t) - Len(m) + 1, Len(t)) = m

\* C6 (start-boundary priority): after a call on a raw output in which some
\* start marker occurs, the start index is the position of the first
\* occurrence of the earliest list entry that occurs in the output.
C6_StartBoundaryPriority ==
  (parse_calls > 0 /\ Present(fuzzer_output, STACKTRACE_TOOL_MARKERS) # {}) =>
    begin_summary =
      FirstPosition(fuzzer_output,
                    EarliestPresent(fuzzer_output, STACKTRACE_TOOL_MARKERS))

\* C7 (bounded report): text a call appends is a contiguous part of the raw
\* output that begins with a start marker and, when an end marker occurs in
\* the output, ends with the earliest end marker that occurs; and for an
\* output whose earliest start marker is "ERROR: libFuzzer" and whose
\* earliest end marker is "SUMMARY:", occurring after it, the appended text
\* runs from the first character of the one to the last of the other.
C7_BoundedReport ==
  parse_calls > 0 =>
    LET raw == fuzzer_output
        lf == STACKTRACE_TOOL_MARKERS[4]
        sm == STACKTRACE_END_MARKERS[5]
    IN /\ wrote =>
            /\ Occurs(raw, summary_str)
            /\ \E k \in 1..Len(STACKTRACE_TOOL_MARKERS) :
                  BeginsWith(summary_str, STACKTRACE_TOOL_MARKERS[k])
            /\ Present(raw, STACKTRACE_END_MARKERS) # {} =>
                  EndsWith(summary_str,
                           EarliestPresent(raw, STACKTRACE_END_MARKERS))
       /\ ( /\ Present(raw, STACKTRACE_TOOL_MARKERS) # {}
            /\ EarliestPresent(raw, STACKTRACE_TOOL_MARKERS) = lf
            /\ Present(raw, STACKTRACE_END_MARKERS) # {}
            /\ EarliestPresent(raw, STACKTRACE_END_MARKERS) = sm
            /\ FirstPosition(raw, sm) >= FirstPosition(raw, lf) + Len(lf) ) =>
            /\ wrote
            /\ summary_str = SubSeq(raw, FirstPosition(raw, lf) + 1,
                                    FirstPosition(raw, sm) + Len(sm))

\* C8 (end-boundary detection): after a call, the end index is the position
\* just after the first occurrence of the earliest end marker that occurs in
\* the raw output; when no end marker occurs (and a start marker does), the
\* call writes the text from the start index to the end of the output.
C8_EndBoundary ==
  parse_calls > 0 =>
    LET raw == fuzzer_output
    IN IF Present(raw, STACKTRACE_END_MARKERS) # {}
       THEN LET m == EarliestPresent(raw, STACKTRACE_END_MARKERS)
            IN end_summary = FirstPosition(raw, m) + Len(m)
       ELSE Present(raw, STACKTRACE_TOOL_MARKERS) # {} =>
              /\ wrote
              /\ summary_str = PySlice(raw, begin_summary, Len(raw))

\* C9 (no start marker, no write): a call on a raw output in which no start
\* marker occurs leaves the summary file as it was, not created and not
\* appended to.
C9_NoStartMarkerNoWrite ==
  (parse_calls = 1 /\ Present(fuzzer_output, STACKTRACE_TOOL_MARKERS) = {}) =>
    bug_summary = prior

RECURSIVE Flatten(_)
Flatten(ss) == IF ss = <<>> THEN <<>> ELSE Head(ss) \o Flatten(Tail(ss))

\* C10 (append-only summary): after any number of calls the summary file
\* holds its prior content followed by the slices of the calls in call
\* order, and the file exists if it did before or a call wrote.
C10_AppendOnly ==
  /\ bug_summary.text = prior.text \o Flatten(slices)
  /\ bug_summary.exists <=> (prior.exists \/ Flatten(slices) # <<>>)

C10_Witness ==
  /\ parse_calls = 2
  /\ prior.text # <<>>
  /\ slices[1] # <<>>
  /\ slices[2] # <<>>
  /\ slices[1] # slices[2]
  /\ bug_summary.text = prior.text \o slices[1] \o slices[2]

(* ================= properties of download_latest_corpus ================ *)
\* The requests made by the c-th call, in the order they were made.
RequestsOf(c) == SelectSeq(http_requests, LAMBDA r : r.call = c)

\* C11 (invalid project or missing out directory): calls for a project that
\* fails the existence check, or with an out directory that does not exist,
\* return None, create no corpus directory and make no HTTP request.
C11_InvalidFetchIsAbsent ==
  (project_name.val = UnknownProject \/ ~out_dir_exists) =>
    /\ pc = "fetch"
    /\ corpus_dir = None
    /\ corpus_dirs = {}
    /\ extracted = {}
    /\ http_requests = <<>>

C11_Witness ==
  /\ project_name.val = UnknownProject
  /\ out_dir_exists
  /\ Len(downloads) = 2
  /\ corpus_dir = None
  /\ corpus_dirs = {}

\* C12 (success stops probing): the requests of one call have the offsets
\* 90, 91, ... in this order and none above 99; a request that succeeds is
\* the last of its call, the archive of the target is extracted into its
\* corpus directory and the call returns the path of that directory.
C12_SuccessStopsProbing ==
  \A c \in 1..Len(downloads) :
    LET rs == RequestsOf(c)
    IN \A i \in 1..Len(rs) :
         /\ rs[i].day_diff = 90 + (i - 1)
         /\ rs[i].day_diff <= 99
         /\ rs[i].target = downloads[c]
         /\ rs[i].response = "ok" =>
              /\ i = Len(rs)
              /\ downloads[c] \in extracted
              /\ downloads[c] \in corpus_dirs
              /\ c = Len(downloads) =>
                   /\ pc = "fetch"
                   /\ corpus_dir = Some(<<"out", "corpus", downloads[c]>>)

C12_Witness ==
  /\ Len(downloads) = 2
  /\ Len(http_requests) = 2
  /\ http_requests[1].response = "http_error"
  /\ http_requests[2].response = "ok"
  /\ http_requests[2].day_diff = 90
  /\ downloads[2] \in extracted
  /\ downloads[1] \notin extracted
  /\ Truthy(corpus_dir)

\* C13 (fail-fast on the first miss): every call makes at most one HTTP
\* request; a call whose request for offset 90 fails with an HTTP error
\* returns None, and a call returns a path exactly if its request for offset
\* 90 succeeds.
C13_FirstMissEndsFetch ==
  \A c \in 1..Len(downloads) :
    LET rs == RequestsOf(c)
    IN /\ Len(rs) <= 1
       /\ (c = Len(downloads) /\ pc = "fetch") =>
            /\ Truthy(corpus_dir) <=>
                 (Len(rs) = 1 /\ rs[1].day_diff = 90 /\ rs[1].response = "ok")
            /\ (Len(rs) >= 1 /\ rs[1].response = "http_error") =>
                 corpus_dir = None

C13_Witness ==
  /\ Len(downloads) = 2
  /\ pc = "fetch"
  /\ Len(http_requests) = 2
  /\ http_requests[1].response = "ok"
  /\ http_requests[2].response = "http_error"
  /\ http_requests[2].day_diff = 90
  /\ corpus_dir = None

(* ================== further properties of run_fuzzers ================== *)
\* The c-th corpus download yielded no corpus: it returned None.
YieldedAbsent(c) ==
  \A i \in 1..Len(RequestsOf(c)) : RequestsOf(c)[i].response = "http_error"

\* The position of the first crashing outcome, 0 if there is none.
FirstCrash ==
  IF \E i \in 1..Len(outcomes) : IsCrash(outcomes[i])
  THEN MinOf({i \in 1..Len(outcomes) : IsCrash(outcomes[i])})
  ELSE 0

\* C14 (graceful degradation): in a run with a project name every target
\* whose corpus download returned (with or without a corpus) is executed, with
\* the allotment floor(fuzz_seconds / n), and without seed corpus when the
\* download yielded none; the returned pair and the executed targets depend
\* on the target outcomes only, not on what the downloads yielded.
C14_RunsWithoutCorpus ==
  Truthy(project_name) =>
    /\ \A i \in 1..Len(executed) :
         /\ executed[i].target = fuzzer_paths[i]
         /\ downloads[i] = fuzzer_paths[i]
         /\ executed[i].duration = fuzz_seconds.val \div Len(fuzzer_paths)
         /\ YieldedAbsent(i) <=> executed[i].corpus_dir = None
    /\ Len(downloads) - Len(executed) \in {0, 1}
    /\ Len(downloads) > Len(executed) => pc \in {"fuzz", "fault"}
    /\ (pc = "done" /\ ValidRun) =>
         /\ result = <<TRUE, FirstCrash # 0>>
         /\ Len(executed) =
              IF FirstCrash # 0 THEN FirstCrash ELSE Len(fuzzer_paths)

C14_Witness ==
  /\ pc = "done"
  /\ project_name = Some(KnownProject)
  /\ Len(fuzzer_paths) = 2
  /\ Len(executed) = 2
  /\ executed[1].corpus_dir = None
  /\ executed[1].duration = 2
  /\ executed[2].corpus_dir # None
  /\ result = <<TRUE, FALSE>>

\* C15 (no unhandled fault): no operation is ever ended by an exception that
\* nothing catches.
C15_NoUnhandledFault == pc # "fault" /\ build_pc # "fault"

\* C16 (sequential in-order execution): the executed targets are the first
\* targets of the discovery order, in that order and each once; an execution
\* has returned its outcome before anything else happens; with a project
\* name the download for a target is made before that target is executed and
\* after the one before it has finished; there are at most n executions.
C16_SequentialInOrder ==
  /\ Len(executed) <= Len(fuzzer_paths)
  /\ \A i \in 1..Len(executed) : executed[i].target = fuzzer_paths[i]
  /\ \A i, j \in 1..Len(executed) :
       executed[i].target = executed[j].target => i = j
  /\ Len(outcomes) = Len(executed)
  /\ IF Truthy(project_name)
     THEN /\ Len(executed) <= Len(downloads)
          /\ Len(downloads) <= Len(executed) + 1
          /\ \A i \in 1..Len(downloads) : downloads[i] = fuzzer_paths[i]
     ELSE downloads = <<>>
  /\ pc = "done" => Len(executed) <= Len(fuzzer_paths)

C16_Witness ==
  /\ pc = "done"
  /\ Truthy(project_name)
  /\ Len(fuzzer_paths) = 3
  /\ Len(executed) = 3
  /\ Len(downloads) = 3
  /\ executed[3].target = "c"

\* C17 (crash artifact ordering): the test case is moved before the
\* extractor is called, and the extractor is called, on the stack trace of
\* the crashing target, before the run returns; after a return of
\* (TRUE, TRUE) artifacts/test_case holds the test case of the crashing
\* target, after any other return the run has moved no test case.
C17_CrashArtifactOrder ==
  /\ pc = "parse" =>
       moves = 1 /\ parse_calls = 0 /\ test_case_file = LastOutcome.test_case
  /\ pc = "return" =>
       /\ moves = 1
       /\ parse_calls = 1
       /\ fuzzer_output = LastOutcome.stack_trace.val
  /\ parse_calls >= 1 => moves >= 1
  /\ result = <<TRUE, TRUE>> =>
       /\ moves = 1
       /\ parse_calls = 1
       /\ IsCrash(LastOutcome)
       /\ test_case_file =
            Some(<<"out", "crash", executed[Len(executed)].target>>)
  /\ result \in {<<TRUE, FALSE>>, <<FALSE, FALSE>>} =>
       /\ moves = 0
       /\ test_case_file \in {None, OldTestCase}

C17_Witness ==
  /\ result = <<TRUE, TRUE>>
  /\ prior.exists
  /\ Len(executed) = 2
  /\ test_case_file = Some(<<"out", "crash", "b">>)
  /\ fuzzer_output = AsanTrace

\* Exactly one of the failing test case and the crash output is present.
IsPartial(o) == Truthy(o.test_case) # Truthy(o.stack_trace)

\* C19 (a partial outcome is a clean finish): after a target reported exactly
\* one of a failing test case and crash output, no test case is moved and the
\* extractor is not called for it, the loop goes on with the next target, and
\* the run does not return (TRUE, TRUE) unless a later target crashes.
C19_PartialIsCleanFinish ==
  /\ \A i \in 1..Len(outcomes) :
       IsPartial(outcomes[i]) =>
         /\ i = Len(outcomes) =>
              /\ pc \in {"check", "loop", "fuzz", "fault", "done"}
              /\ moves = 0
              /\ parse_calls = 0
              /\ result # <<TRUE, TRUE>>
         /\ pc = "done" =>
              \/ i < Len(outcomes)
              \/ i = Len(fuzzer_paths) /\ result = <<TRUE, FALSE>>
  /\ (\A i \in 1..Len(outcomes) : ~IsCrash(outcomes[i])) =>
       moves = 0 /\ parse_calls = 0 /\ result # <<TRUE, TRUE>>

C19_Witness ==
  /\ pc = "done"
  /\ Len(outcomes) = 3
  /\ Truthy(outcomes[1].test_case) /\ outcomes[1].stack_trace = Some(<<>>)
  /\ outcomes[2].test_case = Some(<<>>) /\ Truthy(outcomes[2].stack_trace)
  /\ IsCrash(outcomes[3])
  /\ result = <<TRUE, TRUE>>

(* ==================== properties of build_fuzzers ====================== *)
\* The steps of a build in their order; the checkout is that of the pull
\* request when one is given, of the commit otherwise.
BuildPipeline ==
  << "workspace_check", "detect_main_repo",
     IF Truthy(pr_ref) THEN "checkout_pr" ELSE "checkout_commit",
     "docker_run" >>

\* A step that failed.
StepFailed(r) == r.outcome \notin {"exists", "found", "ok", "exit_0"}

\* C18 (single-attempt pipeline): the steps a build has run are the first
\* steps of the pipeline, in order and each once; a step that failed is the
\* last one run and makes the build return FALSE; the build returns TRUE only
\* after the build command ran and reported success.
C18_BuildPipeline ==
  /\ Len(build_steps) <= Len(BuildPipeline)
  /\ \A i \in 1..Len(build_steps) :
       /\ build_steps[i].step = BuildPipeline[i]
       /\ StepFailed(build_steps[i]) =>
            /\ i = Len(build_steps)
            /\ build_pc = "done"
            /\ build_result = <<FALSE>>
  /\ build_result = <<TRUE>> =>
       /\ Len(build_steps) = 4
       /\ build_steps[4].step = "docker_run"
       /\ build_steps[4].outcome = "exit_0"
  /\ build_pc = "done" => build_result \in {<<TRUE>>, <<FALSE>>}

C18_Witness ==
  /\ build_pc = "done"
  /\ build_result = <<FALSE>>
  /\ ~Truthy(pr_ref)
  /\ Len(build_steps) = 4
  /\ build_steps[3].step = "checkout_commit"
  /\ build_steps[4].outcome = "exit_nonzero"

====
